---- MODULE Spec2Model ----
(***************************************************************************)
(* Model of src/activity_tracker.py: the Dash activity tracker.            *)
(*                                                                         *)
(* The program state is the module global uploaded_data (line 74).  Each   *)
(* Dash callback is one action; the variable out records the last call:    *)
(* its name, its arguments, the value it returned and the exception that   *)
(* left it, if any.                                                        *)
(*                                                                         *)
(* Encodings.  Text is a tuple of one-character strings, so that           *)
(* str.split and int() are computed character by character.  A DataFrame   *)
(* is a sequence of rows; only the columns a callback reads are kept       *)
(* (Type, Start, Duration / Duration_minutes).  A timestamp is a day       *)
(* number (1 = 2024-01-01) and an hour, or NaT.  A float mean is the       *)
(* fraction num/den, or NaN.                                               *)
(***************************************************************************)
EXTENDS Integers, Sequences, FiniteSets, TLC

VARIABLES uploaded_data, out

vars == <<uploaded_data, out>>

\* ------------------------------------------------------------------ bounds

\* Longest uploaded CSV, in records.
MaxRows == 2
\* Longest Duration text applied to the duration lambda on its own.
MaxDurLen == 5

\* ----------------------------------------------------------------- helpers

Range(s) == {s[i] : i \in DOMAIN s}

SeqsUpTo(S, n) == UNION {[1..k -> S] : k \in 0..n}

RECURSIVE SeqSum(_)
SeqSum(s) == IF s = <<>> THEN 0 ELSE Head(s) + SeqSum(Tail(s))

SetMin(S) == CHOOSE x \in S : \A y \in S : x <= y
SetMax(S) == CHOOSE x \in S : \A y \in S : x >= y

\* sorted(S), ascending
RECURSIVE SortSet(_)
SortSet(S) == IF S = {} THEN <<>> ELSE <<SetMin(S)>> \o SortSet(S \ {SetMin(S)})

\* ------------------------------------------------------------ python values

\* Optional integer: Python None / pandas NaN, or a number.
NoneVal == [some |-> FALSE, v |-> 0]
Some(n) == [some |-> TRUE, v |-> n]

\* pandas NaT and a parsed Timestamp.
NaT == [nat |-> TRUE, day |-> 0, hour |-> 0]
Timestamp(d, h) == [nat |-> FALSE, day |-> d, hour |-> h]

\* A date handed to the date picker: None, NaT or a calendar date.
NoDate == [k |-> "None", day |-> 0]
NaTDate == [k |-> "NaT", day |-> 0]
Date(d) == [k |-> "date", day |-> d]

\* A float: NaN, or the quotient num/den.
NaN == [nan |-> TRUE, num |-> 0, den |-> 1]
Quot(n, d) == [nan |-> FALSE, num |-> n, den |-> d]

\* A cell of the Duration column as read_csv delivers it: text, or a
\* non-text value (NaN for an empty field, a number in an all-numeric column).
Text(s) == [text |-> TRUE, s |-> s, n |-> 0]
Number(n) == [text |-> FALSE, s |-> <<>>, n |-> n]
EmptyCell == Number(0)

\* The global before any upload (line 74), and a stored DataFrame.
NoData == [loaded |-> FALSE, rows |-> <<>>]
DataFrame(rows) == [loaded |-> TRUE, rows |-> rows]

EXPECTED_COLUMNS ==
  <<"Type", "Start", "End", "Duration", "Start Condition", "Start Location",
    "End Condition", "Notes">>

\* ------------------------------------------------------- str.split and int

Digits == {"0", "1", "2", "3", "4", "5", "6", "7", "8", "9"}

DigitVal(c) ==
  CASE c = "0" -> 0 [] c = "1" -> 1 [] c = "2" -> 2 [] c = "3" -> 3
    [] c = "4" -> 4 [] c = "5" -> 5 [] c = "6" -> 6 [] c = "7" -> 7
    [] c = "8" -> 8 [] c = "9" -> 9

\* x.split(':'): split at every ':'.
RECURSIVE split(_)
split(s) ==
  IF ":" \notin Range(s) THEN <<s>>
  ELSE LET i == CHOOSE k \in DOMAIN s : s[k] = ":" /\ \A j \in 1..(k-1) : s[j] # ":"
       IN <<SubSeq(s, 1, i - 1)>> \o split(SubSeq(s, i + 1, Len(s)))

\* int(p) succeeds (on the alphabet used here: digits, ':' and letters).
IsInt(p) == p # <<>> /\ \A i \in DOMAIN p : p[i] \in Digits

RECURSIVE int(_)
int(p) == IF p = <<>> THEN 0 ELSE 10 * int(SubSeq(p, 1, Len(p) - 1)) + DigitVal(p[Len(p)])

\* ------------------------------------------------ convert_duration_to_minutes

NoException == ""

\* The lambda of line 24 with str.split(':', 1): only the first ':' splits.
DurationLambdaSplitOnce(x) ==
  IF x.text /\ ":" \in Range(x.s)
    THEN LET i == CHOOSE k \in DOMAIN x.s :
                    x.s[k] = ":" /\ \A j \in 1..(k-1) : x.s[j] # ":"
             a == SubSeq(x.s, 1, i - 1)
             b == SubSeq(x.s, i + 1, Len(x.s))
         IN IF IsInt(a) /\ IsInt(b)
              THEN [exc |-> NoException, val |-> Some(int(a) * 60 + int(b))]
              ELSE [exc |-> "ValueError", val |-> NoneVal]
    ELSE [exc |-> NoException, val |-> NoneVal]

\* The lambda of line 24 applied to one cell:
\*   int(x.split(':')[0]) * 60 + int(x.split(':')[1])
\*     if isinstance(x, str) and ':' in x else None
\* int() of a part that is not an integer raises ValueError.
DurationLambda(x) ==
  IF x.text /\ ":" \in Range(x.s)
    THEN LET parts == split(x.s)
         IN IF IsInt(parts[1]) /\ IsInt(parts[2])
              THEN [exc |-> NoException, val |-> Some(int(parts[1]) * 60 + int(parts[2]))]
              ELSE [exc |-> "ValueError", val |-> NoneVal]
    ELSE [exc |-> NoException, val |-> NoneVal]

\* df['Duration'].apply(lambda): the first raising cell aborts the apply.
convert_duration_to_minutes(rows) ==
  IF \E i \in DOMAIN rows : DurationLambda(rows[i].Duration).exc # NoException
    THEN [exc |-> "ValueError", rows |-> <<>>]
    ELSE [exc |-> NoException,
          rows |-> [i \in DOMAIN rows |->
                      [Type |-> rows[i].Type, Start |-> rows[i].Start,
                       Duration |-> rows[i].Duration,
                       Duration_minutes |-> DurationLambda(rows[i].Duration).val]]]

\* ------------------------------------------------------------- timestamps

\* pd.to_datetime(text, errors='coerce') on the texts used here; anything
\* that is no date-time becomes NaT.
pd_to_datetime(s) ==
  CASE s = "2024-01-01 03:00" -> Timestamp(1, 3)
    [] s = "2024-01-01 14:00" -> Timestamp(1, 14)
    [] s = "2024-01-02 03:00" -> Timestamp(2, 3)
    [] s = "2024-01-02 14:00" -> Timestamp(2, 14)
    [] s = "2024-01-01" -> Timestamp(1, 0)
    [] s = "2024-01-02" -> Timestamp(2, 0)
    [] OTHER -> NaT

\* df['Start'] = pd.to_datetime(df['Start'], errors='coerce')
to_datetime_column(rows) ==
  [i \in DOMAIN rows |->
     [Type |-> rows[i].Type, Start |-> pd_to_datetime(rows[i].Start),
      Duration |-> rows[i].Duration]]

\* Series.min() / Series.max() of a datetime column skip NaT and give NaT
\* when nothing is left; NaT.date() is NaT.
StartDays(rows) == {rows[i].Start.day : i \in {j \in DOMAIN rows : ~rows[j].Start.nat}}
min_date(rows) == IF StartDays(rows) = {} THEN NaTDate ELSE Date(SetMin(StartDays(rows)))
max_date(rows) == IF StartDays(rows) = {} THEN NaTDate ELSE Date(SetMax(StartDays(rows)))

\* Series.unique(): the distinct values in order of first appearance.
RECURSIVE unique(_)
unique(s) ==
  IF s = <<>> THEN <<>>
  ELSE LET u == unique(SubSeq(s, 1, Len(s) - 1))
       IN IF s[Len(s)] \in Range(u) THEN u ELSE Append(u, s[Len(s)])

\* ------------------------------------------------------ handle_file_upload

\* validate_csv_columns compared as sets: a reordered header passes.
validate_csv_columns_unordered(columns) == Range(columns) # Range(EXPECTED_COLUMNS)

\* TRUE when validate_csv_columns raises ValueError.
validate_csv_columns(columns) == columns # EXPECTED_COLUMNS

\* The assignment appending to the previous dataset instead of replacing it.
StoreDatasetMerged(cur, rows) == DataFrame(cur.rows \o rows)

\* uploaded_data = convert_duration_to_minutes(df)   (line 105)
StoreDataset(cur, rows) == DataFrame(rows)

BlankReturn ==
  [msg |-> [kind |-> "blank", filename |-> "", reason |-> ""],
   options |-> <<>>, start_date |-> NoDate, end_date |-> NoDate]

\* except Exception as e: return f"Error: {str(e)}", [], None, None
ErrorReturn(reason) ==
  [msg |-> [kind |-> "error", filename |-> "", reason |-> reason],
   options |-> <<>>, start_date |-> NoDate, end_date |-> NoDate]

\* Lines 108-114, computed from the global after the assignment.
SuccessReturn(data, filename) ==
  [msg |-> [kind |-> "success", filename |-> filename, reason |-> ""],
   options |-> unique([i \in DOMAIN data.rows |-> data.rows[i].Type]),
   start_date |-> min_date(data.rows),
   end_date |-> max_date(data.rows)]

\* The whole callback: the new value of the global and the returned tuple.
handle_file_upload_result(cur, contents, filename) ==
  IF contents.kind = "none" THEN [data |-> cur, ret |-> BlankReturn]
  ELSE IF contents.kind = "garbled"
    THEN [data |-> cur, ret |-> ErrorReturn("decode")]
  ELSE IF validate_csv_columns(contents.header)
    THEN [data |-> cur,
          ret |-> ErrorReturn("CSV format does not match the expected columns")]
  ELSE IF ~({"Start", "End", "Duration"} \subseteq Range(contents.header))
    THEN [data |-> cur, ret |-> ErrorReturn("KeyError")]
  ELSE LET c == convert_duration_to_minutes(to_datetime_column(contents.rows))
       IN IF c.exc # NoException
            THEN [data |-> cur, ret |-> ErrorReturn(c.exc)]
            ELSE LET stored == StoreDataset(cur, c.rows)
                 IN IF "Type" \notin Range(contents.header)
                      THEN [data |-> stored, ret |-> ErrorReturn("KeyError")]
                      ELSE [data |-> stored, ret |-> SuccessReturn(stored, filename)]

handle_file_upload(contents, filename) ==
  LET r == handle_file_upload_result(uploaded_data, contents, filename)
  IN /\ uploaded_data' = r.data
     /\ out' = [op |-> "handle_file_upload",
                args |-> [contents |-> contents, filename |-> filename],
                ret |-> r.ret, exc |-> NoException]

\* ------------------------------------------------------------ aggregation

NoType == [some |-> FALSE, v |-> ""]
SomeType(t) == [some |-> TRUE, v |-> t]

\* Series.dt.date / Series.dt.hour: the key of a row, absent for NaT.
dt_date(r) == IF r.Start.nat THEN NoneVal ELSE Some(r.Start.day)
dt_hour(r) == IF r.Start.nat THEN NoneVal ELSE Some(r.Start.hour)

PresentKeys(keys) == {keys[i].v : i \in {j \in DOMAIN keys : keys[j].some}}

CountKey(keys, k) == Len(SelectSeq(keys, LAMBDA x : x.some /\ x.v = k))

\* groupby(..., sort=False): the groups in order of first appearance.
groupby_size_unsorted(keys) ==
  LET order == unique(SelectSeq([i \in DOMAIN keys |-> keys[i].v],
                                LAMBDA v : v \in PresentKeys(keys)))
  IN [i \in DOMAIN order |-> [key |-> order[i], size |-> CountKey(keys, order[i])]]

\* groupby(keys).size(): rows with an absent key are dropped, the groups
\* come sorted by key.
groupby_size(keys) ==
  LET order == SortSet(PresentKeys(keys))
  IN [i \in DOMAIN order |-> [key |-> order[i], size |-> CountKey(keys, order[i])]]

\* Series.mean(): NaN values skipped, NaN when nothing is left.
mean(vals) ==
  LET present == SelectSeq(vals, LAMBDA x : x.some)
  IN IF present = <<>> THEN NaN
     ELSE Quot(SeqSum([i \in DOMAIN present |-> present[i].v]), Len(present))

\* uploaded_data[uploaded_data['Type'] == type_value]
FilterType(rows, t) == SelectSeq(rows, LAMBDA r : r.Type = t)

EmptyFigure == [kind |-> "empty", title |-> "", points |-> <<>>]

\* update_chart, lines 126-134
update_chart_result(data, type_value) ==
  IF ~data.loaded \/ ~type_value.some
    THEN [fig |-> EmptyFigure, data |-> <<>>]
    ELSE LET filtered_data == FilterType(data.rows, type_value.v)
             event_counts ==
               groupby_size([i \in DOMAIN filtered_data |-> dt_date(filtered_data[i])])
         IN [fig |-> [kind |-> "line", title |-> type_value.v, points |-> event_counts],
             data |-> event_counts]

update_chart(type_value) ==
  /\ out' = [op |-> "update_chart", args |-> [type_value |-> type_value],
             ret |-> update_chart_result(uploaded_data, type_value),
             exc |-> NoException]
  /\ UNCHANGED uploaded_data

\* The range test of lines 146-147 with an exclusive upper end.
InRangeExclusive(r, s, e) == ~r.Start.nat /\ r.Start.day >= s /\ r.Start.day < e

\* (Start.dt.date >= start) & (Start.dt.date <= end); a comparison with NaT
\* is False.
InRange(r, s, e) == ~r.Start.nat /\ r.Start.day >= s /\ r.Start.day <= e

\* update_average_table, lines 142-156.  pd.to_datetime(None) is None, and
\* None.date() raises AttributeError.
update_average_table_result(data, start_date, end_date) ==
  IF ~data.loaded THEN [exc |-> NoException, ret |-> <<>>]
  ELSE IF ~start_date.some \/ ~end_date.some
    THEN [exc |-> "AttributeError", ret |-> <<>>]
    ELSE LET s == pd_to_datetime(start_date.v).day
             e == pd_to_datetime(end_date.v).day
             filtered_data ==
               SelectSeq(data.rows, LAMBDA r : InRange(r, s, e) /\ r.Type = "Feed")
             avg_duration ==
               mean([i \in DOMAIN filtered_data |-> filtered_data[i].Duration_minutes])
             sizes ==
               groupby_size([i \in DOMAIN filtered_data |-> dt_date(filtered_data[i])])
             avg_events == mean([i \in DOMAIN sizes |-> Some(sizes[i].size)])
         IN [exc |-> NoException,
             ret |-> <<[avg_duration |-> avg_duration, avg_events |-> avg_events]>>]

update_average_table(start_date, end_date) ==
  LET r == update_average_table_result(uploaded_data, start_date, end_date)
  IN /\ out' = [op |-> "update_average_table",
                args |-> [start_date |-> start_date, end_date |-> end_date],
                ret |-> r.ret, exc |-> r.exc]
     /\ UNCHANGED uploaded_data

\* pivot_table(index='Hour', columns='Day', aggfunc='size', fill_value=0):
\* one row per hour present, one column per day present, rows whose Start
\* is NaT dropped.
pivot_table(rows) ==
  LET kept == SelectSeq(rows, LAMBDA r : ~r.Start.nat)
      hours == {kept[i].Start.hour : i \in DOMAIN kept}
      days == {kept[i].Start.day : i \in DOMAIN kept}
  IN [index |-> SortSet(hours), columns |-> SortSet(days),
      values |-> [h \in hours, d \in days |->
                    Len(SelectSeq(kept, LAMBDA r : r.Start.hour = h /\ r.Start.day = d))]]

\* update_calendar_heatmap, lines 163-202.  The module never imports
\* plotly.graph_objects (lines 1-7), so go.Figure at line 178 raises
\* NameError once the pivot table has been built; heatmap_data is the local
\* the callback holds at that point, ret is what reaches the caller.
update_calendar_heatmap_result(data, type_value) ==
  IF ~data.loaded \/ ~type_value.some
    THEN [exc |-> NoException, ret |-> EmptyFigure]
    ELSE [exc |-> "NameError", ret |-> EmptyFigure,
          heatmap_data |-> pivot_table(FilterType(data.rows, type_value.v))]

update_calendar_heatmap(type_value) ==
  LET r == update_calendar_heatmap_result(uploaded_data, type_value)
  IN /\ out' = [op |-> "update_calendar_heatmap", args |-> [type_value |-> type_value],
                ret |-> r.ret, exc |-> r.exc]
     /\ UNCHANGED uploaded_data

\* The hour-only histogram variant: records of one type whose Start lies in
\* the closed range, grouped by hour alone, without the range test.
update_hour_histogram_unranged(data, start_date, end_date, type_value) ==
  IF ~data.loaded THEN <<>>
  ELSE LET filtered_data == FilterType(data.rows, type_value.v)
       IN groupby_size([i \in DOMAIN filtered_data |-> dt_hour(filtered_data[i])])

\* The hour-only histogram variant of the heatmap callback: records of one
\* type whose Start lies in the closed range, grouped by hour alone, as
\* ordered (hour, count) pairs.
update_hour_histogram_result(data, start_date, end_date, type_value) ==
  IF ~data.loaded THEN <<>>
  ELSE LET s == pd_to_datetime(start_date.v).day
           e == pd_to_datetime(end_date.v).day
           filtered_data ==
             SelectSeq(data.rows, LAMBDA r : InRange(r, s, e) /\ r.Type = type_value.v)
       IN groupby_size([i \in DOMAIN filtered_data |-> dt_hour(filtered_data[i])])

update_hour_histogram(start_date, end_date, type_value) ==
  /\ out' = [op |-> "update_hour_histogram",
             args |-> [start_date |-> start_date, end_date |-> end_date,
                       type_value |-> type_value],
             ret |-> update_hour_histogram_result(uploaded_data, start_date,
                                                  end_date, type_value),
             exc |-> NoException]
  /\ UNCHANGED uploaded_data

\* ------------------------------------------------------------------ inputs

Filenames == {"log.csv"}

Headers ==
  { EXPECTED_COLUMNS,
    \* a column missing
    SubSeq(EXPECTED_COLUMNS, 1, 7),
    \* an extra column
    Append(EXPECTED_COLUMNS, "Extra"),
    \* a column renamed
    <<"Kind">> \o Tail(EXPECTED_COLUMNS),
    \* two columns swapped
    <<"Type", "End", "Start">> \o SubSeq(EXPECTED_COLUMNS, 4, 8) }

T1000 == <<"1", "0", ":", "0", "0">>
T2030 == <<"2", "0", ":", "3", "0">>
Tbad == <<"b", "a", "d">>
Tab == <<"a", ":", "b">>

\* The CSV records the upload callback is driven with.
UploadRows ==
  { [Type |-> "Feed", Start |-> "2024-01-01 03:00", Duration |-> Text(T1000)],
    [Type |-> "Diaper", Start |-> "2024-01-02 14:00", Duration |-> EmptyCell],
    [Type |-> "Feed", Start |-> "garbage", Duration |-> Text(Tab)] }

Csv(header, rows) == [kind |-> "csv", header |-> header, rows |-> rows]

UploadContents ==
  { [kind |-> "none", header |-> <<>>, rows |-> <<>>],
    [kind |-> "garbled", header |-> <<>>, rows |-> <<>>] }
  \cup {Csv(h, rows) : h \in Headers, rows \in SeqsUpTo(UploadRows, MaxRows)}

\* The CSV records the aggregation callbacks are checked on.
AggRows ==
  [Type : {"Feed"},
   Start : {"2024-01-01 03:00", "2024-01-01 14:00", "2024-01-02 03:00", "garbage"},
   Duration : {Text(T1000), Text(T2030), Text(Tbad)}]
  \cup
  [Type : {"Diaper"},
   Start : {"2024-01-01 03:00", "garbage"},
   Duration : {Text(T1000)}]

TypeArgs == {NoType, SomeType("Feed"), SomeType("Diaper"), SomeType("Sleep")}

NoDateArg == [some |-> FALSE, v |-> ""]
DateArg(s) == [some |-> TRUE, v |-> s]
PickerDates == {DateArg("2024-01-01"), DateArg("2024-01-02")}
DateArgs == {NoDateArg} \cup PickerDates

\* The Duration cells the conversion is applied to on its own.
DurChars == {"0", "3", "5", ":", "a"}
DurValues ==
  {Text(s) : s \in SeqsUpTo(DurChars, MaxDurLen)} \cup {Number(42), EmptyCell}

\* ----------------------------------------------------------- specifications

InitialOut == [op |-> "init", args |-> <<>>, ret |-> <<>>, exc |-> NoException]

Init ==
  /\ uploaded_data = NoData
  /\ out = InitialOut

Next ==
  \/ \E c \in UploadContents, f \in Filenames : handle_file_upload(c, f)
  \/ \E t \in TypeArgs : update_chart(t)
  \/ \E s \in DateArgs, e \in DateArgs : update_average_table(s, e)
  \/ \E t \in TypeArgs : update_calendar_heatmap(t)
  \/ \E s \in PickerDates, e \in PickerDates, t \in TypeArgs \ {NoType} :
       update_hour_histogram(s, e, t)

Spec == Init /\ [][Next]_vars

\* The aggregation callbacks on every dataset one successful upload stores.
InitAgg ==
  /\ uploaded_data \in
       {NoData} \cup
       { handle_file_upload_result(NoData, Csv(EXPECTED_COLUMNS, rows), "log.csv").data :
           rows \in SeqsUpTo(AggRows, MaxRows) }
  /\ out = InitialOut

NextAgg ==
  \/ \E t \in TypeArgs : update_chart(t)
  \/ \E s \in DateArgs, e \in DateArgs : update_average_table(s, e)
  \/ \E t \in TypeArgs : update_calendar_heatmap(t)
  \/ \E s \in PickerDates, e \in PickerDates, t \in TypeArgs \ {NoType} :
       update_hour_histogram(s, e, t)

SpecAgg == InitAgg /\ [][NextAgg]_vars

\* convert_duration_to_minutes on a one-row frame holding the cell drawn.
InitDur ==
  /\ uploaded_data = NoData
  /\ out \in {[op |-> "input", args |-> [x |-> x], ret |-> <<>>, exc |-> NoException] :
                x \in DurValues}

apply_convert_duration ==
  /\ out.op = "input"
  /\ LET c == convert_duration_to_minutes(
                <<[Type |-> "Feed", Start |-> NaT, Duration |-> out.args.x]>>)
     IN out' = [op |-> "convert_duration_to_minutes", args |-> out.args,
                ret |-> c.rows, exc |-> c.exc]
  /\ UNCHANGED uploaded_data

NextDur == apply_convert_duration

SpecDur == InitDur /\ [][NextDur]_vars

\* ------------------------------------------------------------------ claims

IsUpload(o) == o.op = "handle_file_upload"
IsCsvUpload(o) == IsUpload(o) /\ o.args.contents.kind = "csv"

\* The records of an uploaded CSV, parsed row by row.
ParsedRecords(rows) ==
  [i \in DOMAIN rows |->
     [Type |-> rows[i].Type, Start |-> pd_to_datetime(rows[i].Start),
      Duration |-> rows[i].Duration,
      Duration_minutes |-> DurationLambda(rows[i].Duration).val]]

\* The part of s before its first ':', and the part between its first ':'
\* and its next ':' (or its end).
Colons(s) == {k \in DOMAIN s : s[k] = ":"}
FirstPart(s) == SubSeq(s, 1, SetMin(Colons(s)) - 1)
AfterFirst(s) == SubSeq(s, SetMin(Colons(s)) + 1, Len(s))
SecondPart(s) ==
  IF Colons(AfterFirst(s)) = {} THEN AfterFirst(s) ELSE FirstPart(AfterFirst(s))

\* A Duration cell that is text with a ':' and a non-integer part.
Malformed(x) ==
  x.text /\ Colons(x.s) # {} /\ ~(IsInt(FirstPart(x.s)) /\ IsInt(SecondPart(x.s)))

C1_Step ==
  (IsCsvUpload(out') /\ out'.args.contents.header # EXPECTED_COLUMNS)
    => (out'.ret.msg.kind = "error" /\ uploaded_data' = uploaded_data)

\* C1: every upload whose header is not exactly EXPECTED_COLUMNS, in order,
\* returns an error message and leaves uploaded_data as it was before.
C1_SchemaMismatchRejected == [][C1_Step]_vars

\* A rejected header arriving while an earlier dataset is loaded.
C1_Witness ==
  /\ IsCsvUpload(out)
  /\ out.args.contents.header # EXPECTED_COLUMNS
  /\ out.ret.msg.kind = "error"
  /\ uploaded_data.loaded /\ uploaded_data.rows # <<>>

C2_Step ==
  IF IsUpload(out') /\ out'.ret.msg.kind = "success"
    THEN uploaded_data' = DataFrame(ParsedRecords(out'.args.contents.rows))
    ELSE uploaded_data' = uploaded_data

\* C2: a step changes uploaded_data only if it is an upload returning
\* success, and then to exactly that upload's records; failed uploads and
\* the aggregation callbacks leave it unchanged.
C2_SlotReplacedOnlyOnSuccess == [][C2_Step]_vars

\* A successful upload of a full-length file.
C2_Witness ==
  /\ IsUpload(out) /\ out.ret.msg.kind = "success"
  /\ Len(out.args.contents.rows) = MaxRows
  /\ uploaded_data = DataFrame(ParsedRecords(out.args.contents.rows))

IsConverted(o) == o.op = "convert_duration_to_minutes"

\* C4 as stated: the text is split at its first ':' only, the second part
\* being everything after it; a number results exactly when both parts are
\* integers, and it is first*60 + second.
C4_SplitAtFirstColonOnly ==
  IsConverted(out) =>
    LET x == out.args.x
    IN IF ~x.text \/ Colons(x.s) = {}
         THEN out.exc = NoException /\ out.ret[1].Duration_minutes = NoneVal
         ELSE LET a == FirstPart(x.s)
                  b == AfterFirst(x.s)
              IN /\ (IsInt(a) /\ IsInt(b))
                      => /\ out.exc = NoException
                         /\ out.ret[1].Duration_minutes = Some(int(a) * 60 + int(b))
                 /\ (out.exc = NoException /\ out.ret[1].Duration_minutes.some)
                      => (IsInt(a) /\ IsInt(b))

\* C4 amended: the text is split at every ':' and the first two parts are
\* used; a number results exactly when both are integers, and it is
\* first*60 + second; a value that is not text or has no ':' gives absent.
C4_FirstTwoParts ==
  IsConverted(out) =>
    LET x == out.args.x
    IN IF ~x.text \/ Colons(x.s) = {}
         THEN out.exc = NoException /\ out.ret[1].Duration_minutes = NoneVal
         ELSE LET a == FirstPart(x.s)
                  b == SecondPart(x.s)
              IN /\ (IsInt(a) /\ IsInt(b))
                      => /\ out.exc = NoException
                         /\ out.ret[1].Duration_minutes = Some(int(a) * 60 + int(b))
                 /\ (out.exc = NoException /\ out.ret[1].Duration_minutes.some)
                      => (IsInt(a) /\ IsInt(b))

\* "5:3:0" converted to 5*60 + 3.
C4_Witness ==
  /\ IsConverted(out)
  /\ out.args.x = Text(<<"5", ":", "3", ":", "0">>)
  /\ out.exc = NoException
  /\ out.ret[1].Duration_minutes = Some(303)

\* Indices of the loaded records of type t, and of those with a Start.
OfType(t) == {i \in DOMAIN uploaded_data.rows : uploaded_data.rows[i].Type = t}
Dated(t) == {i \in OfType(t) : ~uploaded_data.rows[i].Start.nat}
DayOf(i) == uploaded_data.rows[i].Start.day
HourOf(i) == uploaded_data.rows[i].Start.hour

\* The day a date-picker value names.
PickedDay(d) == IF d.v = "2024-01-01" THEN 1 ELSE 2

\* Indices of the loaded records of type t whose Start date lies in [s, e].
Selected(t, s, e) == {i \in Dated(t) : PickedDay(s) <= DayOf(i) /\ DayOf(i) <= PickedDay(e)}

RECURSIVE SumOver(_, _)
SumOver(S, f) ==
  IF S = {} THEN 0
  ELSE LET i == CHOOSE j \in S : TRUE IN f[i] + SumOver(S \ {i}, f)

StrictlyAscending(tbl) ==
  \A i \in DOMAIN tbl : \A j \in DOMAIN tbl : i < j => tbl[i].key < tbl[j].key

\* C5: update_chart on a loaded dataset with type T returns (date, count)
\* pairs in strictly ascending date order, one per date on which a type-T
\* record starts, each count being the number of such records; records
\* without a Start are in no bucket, and no matching record gives [].
C5_CountByDay ==
  (out.op = "update_chart" /\ uploaded_data.loaded /\ out.args.type_value.some) =>
    LET T == out.args.type_value.v
        tbl == out.ret.data
    IN /\ out.exc = NoException
       /\ StrictlyAscending(tbl)
       /\ {tbl[k].key : k \in DOMAIN tbl} = {DayOf(i) : i \in Dated(T)}
       /\ \A k \in DOMAIN tbl :
            tbl[k].size = Cardinality({i \in Dated(T) : DayOf(i) = tbl[k].key})
       /\ SeqSum([k \in DOMAIN tbl |-> tbl[k].size]) = Cardinality(Dated(T))
       /\ (OfType(T) = {} => tbl = <<>>)
       /\ out.ret.fig.points = tbl

\* Two dates counted, the record of the later date standing first in the file.
C5_Witness ==
  /\ out.op = "update_chart" /\ uploaded_data.loaded /\ out.args.type_value.some
  /\ Len(out.ret.data) = 2
  /\ Len(uploaded_data.rows) >= 2
  /\ ~uploaded_data.rows[1].Start.nat /\ ~uploaded_data.rows[2].Start.nat
  /\ uploaded_data.rows[1].Start.day > uploaded_data.rows[2].Start.day

\* C6: update_average_table on a loaded dataset with range [s, e] selects
\* the Feed records with s <= Start date <= e; the average duration is the
\* sum of their present Duration_minutes over the number present; the
\* average number of events is their number over their distinct dates;
\* an empty selection gives NaN for both.
C6_RangeAverages ==
  (/\ out.op = "update_average_table" /\ uploaded_data.loaded
   /\ out.args.start_date.some /\ out.args.end_date.some) =>
    LET S == Selected("Feed", out.args.start_date, out.args.end_date)
        P == {i \in S : uploaded_data.rows[i].Duration_minutes.some}
        Minutes == [i \in DOMAIN uploaded_data.rows |->
                      uploaded_data.rows[i].Duration_minutes.v]
    IN /\ out.exc = NoException
       /\ Len(out.ret) = 1
       /\ out.ret[1].avg_duration =
            IF P = {} THEN NaN ELSE Quot(SumOver(P, Minutes), Cardinality(P))
       /\ out.ret[1].avg_events =
            IF S = {} THEN NaN
            ELSE Quot(Cardinality(S), Cardinality({DayOf(i) : i \in S}))

\* Two Feed records on one day with durations 600 and 1230, averaged over
\* the range consisting of that day.
C6_Witness ==
  /\ out.op = "update_average_table" /\ uploaded_data.loaded
  /\ out.args.start_date = DateArg("2024-01-01")
  /\ out.args.end_date = DateArg("2024-01-01")
  /\ out.exc = NoException
  /\ out.ret = <<[avg_duration |-> Quot(1830, 2), avg_events |-> Quot(2, 1)]>>

\* The selection of the last aggregation call matches no loaded record.
NothingSelected ==
  \/ ~uploaded_data.loaded
  \/ /\ out.op \in {"update_chart", "update_calendar_heatmap"}
     /\ (~out.args.type_value.some \/ OfType(out.args.type_value.v) = {})
  \/ /\ out.op = "update_average_table"
     /\ \/ ~out.args.start_date.some
        \/ ~out.args.end_date.some
        \/ Selected("Feed", out.args.start_date, out.args.end_date) = {}

\* C7: with no dataset loaded, or with no record matching the selection,
\* update_chart, update_average_table and update_calendar_heatmap return an
\* empty result and raise nothing.
C7_EmptyNeverRaises ==
  (/\ out.op \in {"update_chart", "update_average_table", "update_calendar_heatmap"}
   /\ NothingSelected)
    => /\ out.exc = NoException
       /\ (out.op = "update_chart" => out.ret.data = <<>>)
       /\ (out.op = "update_average_table" =>
             \A k \in DOMAIN out.ret :
               out.ret[k].avg_duration.nan /\ out.ret[k].avg_events.nan)
       /\ (out.op = "update_calendar_heatmap" => out.ret = EmptyFigure)

\* C8: update_calendar_heatmap on a loaded dataset with type T returns the
\* matrix with rows 0..23 and one column per Start date of the type-T
\* records in ascending order, each cell the number of type-T records
\* starting in that hour on that day, 0 where there is none.
C8_DayHourMatrix ==
  (/\ out.op = "update_calendar_heatmap" /\ uploaded_data.loaded
   /\ out.args.type_value.some) =>
    LET T == out.args.type_value.v
        days == {DayOf(i) : i \in Dated(T)}
    IN /\ out.exc = NoException
       /\ out.ret.kind = "heatmap"
       /\ out.ret.points.index = [h \in 1..24 |-> h - 1]
       /\ out.ret.points.columns = SortSet(days)
       /\ out.ret.points.values =
            [h \in 0..23, d \in days |->
               Cardinality({i \in Dated(T) : HourOf(i) = h /\ DayOf(i) = d})]

\* The outcome of the last upload is the success one for its file.
UploadSucceeded ==
  /\ out.ret.msg = [kind |-> "success", filename |-> out.args.filename, reason |-> ""]
  /\ Range(out.ret.options) = {uploaded_data.rows[i].Type : i \in DOMAIN uploaded_data.rows}
  /\ Len(out.ret.options) = Cardinality(Range(out.ret.options))
  /\ uploaded_data = DataFrame(ParsedRecords(out.args.contents.rows))
  /\ LET days == {DayOf(i) : i \in {j \in DOMAIN uploaded_data.rows :
                                       ~uploaded_data.rows[j].Start.nat}}
     IN IF days = {}
          THEN out.ret.start_date = NaTDate /\ out.ret.end_date = NaTDate
          ELSE /\ out.ret.start_date = Date(SetMin(days))
               /\ out.ret.end_date = Date(SetMax(days))

UploadFailed ==
  /\ out.ret.msg.kind = "error"
  /\ out.ret.options = <<>>
  /\ out.ret.start_date = NoDate /\ out.ret.end_date = NoDate

\* C9: an upload with non-empty contents returns either the success outcome
\* (filename, distinct types, [min, max] Start date) or the error outcome
\* (reason, no options, no range); with a valid header it is the success
\* outcome and the dataset is stored.
C9_UploadOutcome ==
  (IsUpload(out) /\ out.args.contents.kind # "none") =>
    /\ UploadSucceeded \/ UploadFailed
    /\ (out.args.contents.kind = "csv" /\ out.args.contents.header = EXPECTED_COLUMNS)
         => UploadSucceeded

\* C10: the hour-only histogram of a loaded dataset, for a range and a type,
\* is the (hour, count) pairs in ascending hour order over the records of
\* that type whose Start date lies in the range, whatever their date.
C10_HourHistogram ==
  (out.op = "update_hour_histogram" /\ uploaded_data.loaded) =>
    LET S == Selected(out.args.type_value.v, out.args.start_date, out.args.end_date)
        tbl == out.ret
    IN /\ StrictlyAscending(tbl)
       /\ {tbl[k].key : k \in DOMAIN tbl} = {HourOf(i) : i \in S}
       /\ \A k \in DOMAIN tbl :
            tbl[k].size = Cardinality({i \in S : HourOf(i) = tbl[k].key})

\* Two Feed records on one day at hours 3 and 14 give [(3, 1), (14, 1)].
C10_Witness ==
  /\ out.op = "update_hour_histogram" /\ uploaded_data.loaded
  /\ out.args.type_value = SomeType("Feed")
  /\ Len(uploaded_data.rows) = 2
  /\ \A i \in DOMAIN uploaded_data.rows :
       uploaded_data.rows[i].Type = "Feed" /\ DayOf(i) = 1
  /\ out.ret = <<[key |-> 3, size |-> 1], [key |-> 14, size |-> 1]>>

====
